---- MODULE Spec2Model ----
(***************************************************************************)
(* A model of MOPDERL/replay_memory.py: the ReplayMemory circular buffer   *)
(* of Transition records, its recency query, transfers, sampling, and its  *)
(* save_info / load_info persistence.  Two buffers "A" and "B" and one     *)
(* file are modelled; every method of the class is one action.             *)
(***************************************************************************)
EXTENDS Integers, Sequences, FiniteSets, TLC

\* ------------------------------------------------------------------ bounds
\* The ring scenario: the largest capacity, and the number of items inserted
\* between two resets.
RingCap == 5
RingAdds == 11
\* The sampling scenario, likewise.
DrawCap == 2
DrawAdds == 3
\* The transfer scenario, likewise, for each of its two buffers.
TransferCap == 2
TransferAdds == 3
\* The persistence scenario, likewise, for each of its two buffers.
PersistCap == 3
PersistAdds == 4
ReadCap == 2
ReadAdds == 3

\* Number of fields of a Transition.
NumFields == 5

Bufs == {"A", "B"}

\* ------------------------------------------------------------------ values
\* Python's None: the placeholder add() appends before filling the slot.
None == <<>>

\* A numpy array: its shape and its elements in row-major order.
Arr(shape, data) == [shape |-> shape, data |-> data]

\* The value carried by field f of item n.
FieldVal(n, f) == NumFields * n + f

\* The number of the n-th item a caller inserts into buffer b since b was
\* constructed or reset: the items of "B" are numbered below 0.
ItemOf(b, n) == IF b = "A" THEN n ELSE -n

\* The shapes in which a caller may hand over the two-element state vectors.
StateShapes == { <<2>>, <<2, 1>>, <<1, 2>> }

\* The five arguments of the caller's n-th add(): state and next_state are
\* two-element vectors given in shape sh, action a one-element vector, reward
\* and done scalars (0-d arrays).
Args(n, sh) ==
    << Arr(sh, <<FieldVal(n, 1), FieldVal(n, 1)>>),
       Arr(<<1>>, <<FieldVal(n, 2)>>),
       Arr(<<>>, <<FieldVal(n, 3)>>),
       Arr(sh, <<FieldVal(n, 4), FieldVal(n, 4)>>),
       Arr(<<>>, <<FieldVal(n, 5)>>) >>

\* np.reshape(arg, (1, -1)): one row holding all the elements.
Reshape(arr) == Arr(<<1, Len(arr.data)>>, arr.data)

\* Transition(*reshaped_args): the tuple of the reshaped arguments.
MkTransition(args) == [f \in 1 .. Len(args) |-> Reshape(args[f])]

\* ------------------------------------------------------------------ slices
Min(a, b) == IF a < b THEN a ELSE b
Max(a, b) == IF a < b THEN b ELSE a

\* The elements of s.
Elems(s) == { s[i] : i \in 1 .. Len(s) }

\* A slice bound of Python: negative bounds count from the end, and bounds
\* are clamped to the list.
PyBound(i, n) == IF i < 0 THEN Max(i + n, 0) ELSE Min(i, n)

\* s[lo:hi]
Slice(s, lo, hi) ==
    LET a == PyBound(lo, Len(s))
        b == PyBound(hi, Len(s))
    IN  IF a < b THEN SubSeq(s, a + 1, b) ELSE <<>>

\* s[lo:]
SliceFrom(s, lo) == Slice(s, lo, Len(s))

\* s[:hi]
SliceTo(s, hi) == Slice(s, 0, hi)

\* ------------------------------------------------------------------ the buffer
\* The outcome of a method that may raise part-way: the storage and cursor it
\* leaves behind and the exception ("ok" when it returned).
Outcome(mem, pos, err) == [mem |-> mem, pos |-> pos, err |-> err]

\* Add as it would be without the test of the length against the capacity.
AddAlwaysAppend(mem, pos, cap, args) ==
    LET m1 == Append(mem, None)
    IN  Outcome([m1 EXCEPT ![pos + 1] = MkTransition(args)], (pos + 1) % cap, "ok")

\* Add as it would be with a cursor that restarts one slot late.
AddLateWrap(mem, pos, cap, args) ==
    LET m1 == IF Len(mem) < cap THEN Append(mem, None) ELSE mem
    IN  IF pos < Len(m1)
        THEN Outcome([m1 EXCEPT ![pos + 1] = MkTransition(args)],
                     (pos + 1) % (cap + 1), "ok")
        ELSE Outcome(m1, pos, "IndexError")

\* ReplayMemory.add on a buffer (mem, pos) of capacity cap, given the five
\* arguments: append a placeholder while below capacity, store the reshaped
\* transition at the cursor, advance the cursor modulo the capacity.  The
\* store raises IndexError when the cursor is not an index of the list.
Add(mem, pos, cap, args) ==
    LET m1 == IF Len(mem) < cap THEN Append(mem, None) ELSE mem
    IN  IF pos < Len(m1)
        THEN Outcome([m1 EXCEPT ![pos + 1] = MkTransition(args)],
                     (pos + 1) % cap, "ok")
        ELSE Outcome(m1, pos, "IndexError")

\* for transition in latest_trans: self.add(*transition)
\* Unpacking a None element raises TypeError before add is entered; an
\* exception of add ends the loop.
RECURSIVE AddEach(_, _, _, _)
AddEach(mem, pos, cap, ts) ==
    IF ts = <<>> THEN Outcome(mem, pos, "ok")
    ELSE IF Head(ts) = None THEN Outcome(mem, pos, "TypeError")
    ELSE LET r == Add(mem, pos, cap, Head(ts))
         IN  IF r.err # "ok" THEN r
             ELSE AddEach(r.mem, r.pos, cap, Tail(ts))

\* get_latest as it would be with a last branch that ignores the cursor.
GetLatestTail(mem, pos, cap, latest) ==
    IF cap < latest
    THEN SliceFrom(mem, pos) \o SliceTo(mem, pos)
    ELSE IF Len(mem) < cap
    THEN SliceFrom(mem, -latest)
    ELSE IF pos >= latest
    THEN SliceFrom(SliceTo(mem, pos), -latest)
    ELSE SliceFrom(mem, -latest)

\* get_latest as it would be with a third branch that slices the whole list.
GetLatestWhole(mem, pos, cap, latest) ==
    IF cap < latest
    THEN SliceFrom(mem, pos) \o SliceTo(mem, pos)
    ELSE IF Len(mem) < cap
    THEN SliceFrom(mem, -latest)
    ELSE IF pos >= latest
    THEN SliceFrom(mem, -latest)
    ELSE SliceFrom(mem, -latest + pos) \o SliceTo(mem, pos)

\* get_latest as it would be with a first branch that copies the list as it is.
GetLatestUnrotated(mem, pos, cap, latest) ==
    IF cap < latest
    THEN mem
    ELSE IF Len(mem) < cap
    THEN SliceFrom(mem, -latest)
    ELSE IF pos >= latest
    THEN SliceFrom(SliceTo(mem, pos), -latest)
    ELSE SliceFrom(mem, -latest + pos) \o SliceTo(mem, pos)

\* ReplayMemory.get_latest(latest) on a buffer (mem, pos) of capacity cap.
GetLatest(mem, pos, cap, latest) ==
    IF cap < latest
    THEN SliceFrom(mem, pos) \o SliceTo(mem, pos)
    ELSE IF Len(mem) < cap
    THEN SliceFrom(mem, -latest)
    ELSE IF pos >= latest
    THEN SliceFrom(SliceTo(mem, pos), -latest)
    ELSE SliceFrom(mem, -latest + pos) \o SliceTo(mem, pos)

\* Which list object an expression of get_latest denotes: the list self.memory
\* itself, or a list the expression built.  A slice, list.copy() and + each
\* build a list, whatever their operands are.
Storage == "self.memory"
Built == "built"
NoList == "no list"
SliceOf(obj) == Built
CopyOf(obj) == Built
PlusOf(a, b) == Built

\* get_latest as it would be if, asked for more than the capacity with the
\* cursor at 0, it returned self.memory instead of rebuilding it.
GetLatestObjectShared(mem, pos, cap, latest) ==
    IF cap < latest /\ pos = 0 THEN Storage ELSE Built

\* The list object ReplayMemory.get_latest(latest) returns, branch by branch.
GetLatestObject(mem, pos, cap, latest) ==
    IF cap < latest
    THEN PlusOf(CopyOf(SliceOf(Storage)), CopyOf(SliceOf(Storage)))
    ELSE IF Len(mem) < cap
    THEN CopyOf(SliceOf(Storage))
    ELSE IF pos >= latest
    THEN CopyOf(SliceOf(SliceOf(Storage)))
    ELSE PlusOf(CopyOf(SliceOf(Storage)), CopyOf(SliceOf(Storage)))

\* ------------------------------------------------------------------ sampling
\* The orders in which random.sample may pick k distinct places of a
\* population of n elements.
Picks(n, k) ==
    { s \in [1 .. k -> 1 .. n] : \A i, j \in 1 .. k : s[i] = s[j] => i = j }

\* np.concatenate of arrays of one row width along axis 0.
RECURSIVE ConcatData(_)
ConcatData(arrs) ==
    IF arrs = <<>> THEN <<>> ELSE Head(arrs).data \o ConcatData(Tail(arrs))

RECURSIVE SumRows(_)
SumRows(arrs) ==
    IF arrs = <<>> THEN 0 ELSE Head(arrs).shape[1] + SumRows(Tail(arrs))

Concatenate(arrs) == Arr(<<SumRows(arrs), arrs[1].shape[2]>>, ConcatData(arrs))

\* Transition(*zip(*transitions)) followed by the five concatenations and the
\* return statement: (state, action, reward, next_state, done).
Grouped(transitions) ==
    LET batch == [f \in 1 .. NumFields |->
                     [i \in 1 .. Len(transitions) |-> transitions[i][f]]]
    IN  << Concatenate(batch[1]), Concatenate(batch[2]), Concatenate(batch[3]),
           Concatenate(batch[4]), Concatenate(batch[5]) >>

\* SampleErr as it would be if the places were drawn one by one and used as
\* indices: a sample larger than the population runs off the list.
SampleErrIndex(pool, batch_size, idx) ==
    IF batch_size > Len(pool) THEN "IndexError"
    ELSE IF batch_size = 0 THEN "TypeError"
    ELSE IF \E i \in 1 .. batch_size : pool[idx[i]] = None THEN "TypeError"
    ELSE "ok"

\* The exception of sampling batch_size elements at the places idx of pool:
\* random.sample raises ValueError for a sample larger than the population;
\* zip(*transitions) raises TypeError on a None element, and Transition()
\* raises TypeError when zip yields nothing (no transitions).
SampleErr(pool, batch_size, idx) ==
    IF batch_size > Len(pool) THEN "ValueError"
    ELSE IF batch_size = 0 THEN "TypeError"
    ELSE IF \E i \in 1 .. batch_size : pool[idx[i]] = None THEN "TypeError"
    ELSE "ok"

\* What the sampling returns when it raises nothing.
SampleVal(pool, idx) == Grouped([i \in 1 .. Len(idx) |-> pool[idx[i]]])

\* ------------------------------------------------------------------ the file
\* The number of leading slots of mem that hold a transition.
RECURSIVE Leading(_)
Leading(mem) ==
    IF mem = <<>> \/ Head(mem) = None THEN 0 ELSE 1 + Leading(Tail(mem))

\* The array records save_info writes after the header: the five fields of
\* each transition in turn; trans.state of a None slot raises AttributeError
\* and the file keeps what was written before it.
Records(mem) ==
    [j \in 1 .. NumFields * Leading(mem) |->
        mem[((j - 1) \div NumFields) + 1][((j - 1) % NumFields) + 1]]

WriteFile(mem, pos) ==
    [exists |-> TRUE, header |-> <<Len(mem), pos>>, records |-> Records(mem)]

NoFile == [exists |-> FALSE, header |-> <<>>, records |-> <<>>]

\* The loop of load_info from its i-th iteration on: five np.load calls (EOFError
\* when the file holds no further record), then add.
RECURSIVE LoadLoop(_, _, _, _, _)
LoadLoop(mem, pos, cap, f, i) ==
    IF i > f.header[1] THEN Outcome(mem, pos, "ok")
    ELSE IF Len(f.records) < NumFields * i THEN Outcome(mem, pos, "EOFError")
    ELSE LET t == SubSeq(f.records, NumFields * (i - 1) + 1, NumFields * i)
             r == Add(mem, pos, cap, t)
         IN  IF r.err # "ok" THEN r ELSE LoadLoop(r.mem, r.pos, cap, f, i + 1)

\* load_info as it would be if it left the cursor where the inserts of the
\* loop put it.
LoadKeepCursor(pos, cap, f) == LoadLoop(<<>>, pos, cap, f, 1)

\* ReplayMemory.load_info: clear the storage (the cursor is left as it is),
\* add the saved transitions, then set the cursor to the saved one.
Load(pos, cap, f) ==
    LET r == LoadLoop(<<>>, pos, cap, f, 1)
    IN  IF r.err # "ok" THEN r ELSE Outcome(r.mem, f.header[2], "ok")

\* ------------------------------------------------------------------ state
VARIABLES
    capacity,   \* self.capacity of each buffer
    memory,     \* self.memory of each buffer
    position,   \* self.position of each buffer
    file,       \* the file at file_path
    saved,      \* of the buffer of the last save_info, as the call began: its
                \* capacity, whether it was reached by add and reset alone,
                \* its length, and its get_latest(length)
    hist,       \* per buffer: the transitions the caller's add calls stored
                \* since construction or the last reset
    pure,       \* per buffer: only the caller's add calls and reset have
                \* acted on it since construction
    nadds,      \* per buffer: the number of add calls of the caller since
                \* construction or the last reset
    out         \* the last call: method, arguments, exception, return value

vars == <<capacity, memory, position, file, saved, hist, pure, nadds, out>>

\* The record of a call of method op on buffer buf: src the other buffer of a
\* transfer, n the argument latest, k the argument batch_size, err the
\* exception, val the value returned (for a transfer the list latest_trans it
\* pulled), idx the places random.sample picked, empty whether buf held
\* nothing and had cursor 0 when the call began, obj which list object the
\* returned list is (NoList where the method returns no list).
Call(op, buf, src, n, k, err, val, idx, empty) ==
    [op |-> op, buf |-> buf, src |-> src, n |-> n, k |-> k, err |-> err,
     val |-> val, idx |-> idx, empty |-> empty, obj |-> NoList]

IsEmpty(b) == memory[b] = <<>> /\ position[b] = 0

\* The values of `latest` tried on a buffer of capacity cap: below, at and
\* above the capacity.  The values of batch_size likewise.
LatestArgs(cap) == 0 .. (cap + 1)
BatchArgs(cap) == 0 .. (cap + 1)

\* ReplayMemory.__init__ of both buffers, with capacities caps.
Construct(caps) ==
    /\ capacity = caps
    /\ memory = [b \in Bufs |-> <<>>]
    /\ position = [b \in Bufs |-> 0]
    /\ file = NoFile
    /\ saved = [cap |-> 0, pure |-> FALSE, len |-> 0, latest |-> <<>>]
    /\ hist = [b \in Bufs |-> <<>>]
    /\ pure = [b \in Bufs |-> TRUE]
    /\ nadds = [b \in Bufs |-> 0]
    /\ out = Call("init", "A", "A", 0, 0, "ok", <<>>, <<>>, TRUE)

\* The buffer b after a method left it as outcome r; ts are the transitions
\* a caller's add stored, keeps whether the method is add.
Becomes(b, r, ts, keeps) ==
    /\ memory' = [memory EXCEPT ![b] = r.mem]
    /\ position' = [position EXCEPT ![b] = r.pos]
    /\ pure' = [pure EXCEPT ![b] = pure[b] /\ keeps /\ r.err = "ok"]
    /\ hist' = [hist EXCEPT ![b] = IF pure[b] /\ keeps /\ r.err = "ok"
                                   THEN hist[b] \o ts ELSE <<>>]

\* b.add(state, action, reward, next_state, done) with the caller's next item,
\* of at most max items.
AddCall(b, max) ==
    /\ nadds[b] < max
    /\ \E sh \in StateShapes :
          LET args == Args(ItemOf(b, nadds[b] + 1), sh)
              r == Add(memory[b], position[b], capacity[b], args)
          IN  /\ Becomes(b, r, <<MkTransition(args)>>, TRUE)
              /\ out' = Call("add", b, b, 0, 0, r.err, <<>>, <<>>, IsEmpty(b))
    /\ nadds' = [nadds EXCEPT ![b] = nadds[b] + 1]
    /\ UNCHANGED <<capacity, file, saved>>

\* A transfer into b of the list ts pulled from o.
Transfer(op, b, o, n, ts) ==
    LET r == AddEach(memory[b], position[b], capacity[b], ts)
    IN  /\ Becomes(b, r, <<>>, FALSE)
        /\ out' = Call(op, b, o, n, 0, r.err, ts, <<>>, IsEmpty(b))
        /\ UNCHANGED <<capacity, file, saved, nadds>>

\* add_content_of as it would be if it asked the other buffer for as many
\* transitions as the other buffer's capacity.
AddContentOfOtherCapacity(b, o) ==
    Transfer("add_content_of", b, o, capacity[o],
             GetLatest(memory[o], position[o], capacity[o], capacity[o]))

\* b.add_content_of(o)
AddContentOf(b, o) ==
    Transfer("add_content_of", b, o, capacity[b],
             GetLatest(memory[o], position[o], capacity[o], capacity[b]))

\* The list s, last element first.
Reverse(s) == [i \in 1 .. Len(s) |-> s[Len(s) + 1 - i]]

\* add_latest_from as it would be if it added the most recent element first.
AddLatestFromNewestFirst(b, o, latest) ==
    Transfer("add_latest_from", b, o, latest,
             Reverse(GetLatest(memory[o], position[o], capacity[o], latest)))

\* b.add_latest_from(o, latest)
AddLatestFrom(b, o, latest) ==
    Transfer("add_latest_from", b, o, latest,
             GetLatest(memory[o], position[o], capacity[o], latest))

\* b.get_latest(latest)
GetLatestCall(b, latest) ==
    /\ out' = [Call("get_latest", b, b, latest, 0, "ok",
                    GetLatest(memory[b], position[b], capacity[b], latest),
                    <<>>, IsEmpty(b))
                 EXCEPT !.obj = GetLatestObject(memory[b], position[b],
                                                capacity[b], latest)]
    /\ UNCHANGED <<capacity, memory, position, file, saved, hist, pure, nadds>>

\* The lists a caller can make of the list s by one list operation: append an
\* element x, remove the last element, or replace one element by x.
Edits(s, x) ==
    {Append(s, x)}
        \cup {SubSeq(s, 1, Len(s) - 1) : i \in {1} \cap (1 .. Len(s))}
        \cup {[s EXCEPT ![i] = x] : i \in 1 .. Len(s)}

\* The caller edits the list b.get_latest returned last.  The edit is one on
\* the object: it reaches the storage of b exactly when the returned list is
\* the list self.memory.
EditReturned(b) ==
    /\ out.op = "get_latest" /\ out.buf = b
    /\ \E s \in Edits(out.val, MkTransition(Args(0, <<2>>))) :
          /\ out' = [out EXCEPT !.op = "edit", !.val = s]
          /\ memory' = IF out.obj = Storage
                       THEN [memory EXCEPT ![b] = s] ELSE memory
    /\ UNCHANGED <<capacity, position, file, saved, hist, pure, nadds>>

\* random.shuffle as it would be if it drew every place of the list afresh
\* from the elements of s, so that an element may come twice and another go.
ShufflesWithRepeats(s) == [1 .. Len(s) -> Elems(s)]

\* The orders in which random.shuffle may leave the list s.
Shuffles(s) ==
    { [i \in 1 .. Len(s) |-> s[p[i]]] : p \in Picks(Len(s), Len(s)) }

\* b.shuffle()
Shuffle(b) ==
    /\ \E m \in Shuffles(memory[b]) :
          Becomes(b, Outcome(m, position[b], "ok"), <<>>, FALSE)
    /\ out' = Call("shuffle", b, b, 0, 0, "ok", <<>>, <<>>, IsEmpty(b))
    /\ UNCHANGED <<capacity, file, saved, nadds>>

\* Sampling batch_size elements of pool, for method op of buffer b.
Draw(op, b, latest, batch_size, pool) ==
    /\ \E idx \in Picks(Len(pool), Min(batch_size, Len(pool))) :
          LET err == SampleErr(pool, batch_size, idx)
          IN  out' = Call(op, b, b, latest, batch_size, err,
                          IF err = "ok" THEN SampleVal(pool, idx) ELSE <<>>,
                          IF err = "ok" THEN idx ELSE <<>>, IsEmpty(b))
    /\ UNCHANGED <<capacity, memory, position, file, saved, hist, pure, nadds>>

\* b.sample(batch_size)
Sample(b, batch_size) == Draw("sample", b, 0, batch_size, memory[b])

\* b.sample_from_latest(batch_size, latest)
SampleFromLatest(b, batch_size, latest) ==
    Draw("sample_from_latest", b, latest, batch_size,
         GetLatest(memory[b], position[b], capacity[b], latest))

\* len(b)
LenCall(b) ==
    /\ out' = Call("len", b, b, 0, 0, "ok", <<Len(memory[b])>>, <<>>, IsEmpty(b))
    /\ UNCHANGED <<capacity, memory, position, file, saved, hist, pure, nadds>>

\* reset as it would be if it emptied the storage and left the cursor.
ResetKeepCursor(b) ==
    /\ memory' = [memory EXCEPT ![b] = <<>>]
    /\ pure' = [pure EXCEPT ![b] = TRUE]
    /\ hist' = [hist EXCEPT ![b] = <<>>]
    /\ nadds' = [nadds EXCEPT ![b] = 0]
    /\ out' = Call("reset", b, b, 0, 0, "ok", <<>>, <<>>, IsEmpty(b))
    /\ UNCHANGED <<capacity, position, file, saved>>

\* b.reset()
Reset(b) ==
    /\ memory' = [memory EXCEPT ![b] = <<>>]
    /\ position' = [position EXCEPT ![b] = 0]
    /\ pure' = [pure EXCEPT ![b] = TRUE]
    /\ hist' = [hist EXCEPT ![b] = <<>>]
    /\ nadds' = [nadds EXCEPT ![b] = 0]
    /\ out' = Call("reset", b, b, 0, 0, "ok", <<>>, <<>>, IsEmpty(b))
    /\ UNCHANGED <<capacity, file, saved>>

\* b.save_info(file_path)
SaveInfo(b) ==
    /\ file' = WriteFile(memory[b], position[b])
    /\ saved' = [cap |-> capacity[b], pure |-> pure[b], len |-> Len(memory[b]),
                 latest |-> GetLatest(memory[b], position[b], capacity[b],
                                      Len(memory[b]))]
    /\ out' = Call("save_info", b, b, 0, 0,
                   IF Leading(memory[b]) < Len(memory[b])
                   THEN "AttributeError" ELSE "ok",
                   <<>>, <<>>, IsEmpty(b))
    /\ UNCHANGED <<capacity, memory, position, hist, pure, nadds>>

\* b.load_info(file_path), of a file that exists.
LoadInfo(b) ==
    /\ file.exists
    /\ LET r == Load(position[b], capacity[b], file)
       IN  /\ Becomes(b, r, <<>>, FALSE)
           /\ out' = Call("load_info", b, b, 0, 0, r.err, <<>>, <<>>, IsEmpty(b))
    /\ UNCHANGED <<capacity, file, saved, nadds>>

\* ------------------------------------------------------------------ scenarios
\* The ring: buffer "A" of any capacity up to RingCap filled and reset by the
\* caller, who asks for its latest elements and its length.
InitRing == \E c \in 1 .. RingCap : Construct([b \in Bufs |-> c])

NextRing ==
    \/ AddCall("A", RingAdds)
    \/ Reset("A")
    \/ \E n \in LatestArgs(capacity["A"]) : GetLatestCall("A", n)
    \/ LenCall("A")

SpecRing == InitRing /\ [][NextRing]_vars

\* Sampling: buffer "A" of any capacity up to DrawCap filled, reset and
\* shuffled by the caller, who draws samples from it.
InitDraw == \E c \in 1 .. DrawCap : Construct([b \in Bufs |-> c])

NextDraw ==
    \/ AddCall("A", DrawAdds)
    \/ Reset("A")
    \/ Shuffle("A")
    \/ \E k \in BatchArgs(capacity["A"]) : Sample("A", k)
    \/ \E k \in BatchArgs(capacity["A"]) : \E n \in LatestArgs(capacity["A"]) :
          SampleFromLatest("A", k, n)

SpecDraw == InitDraw /\ [][NextDraw]_vars

\* Transfers: the caller fills and resets the source "A" and the destination
\* "B", each of any capacity up to TransferCap, and "B" pulls from "A".
InitTransfer == \E caps \in [Bufs -> 1 .. TransferCap] : Construct(caps)

NextTransfer ==
    \/ \E b \in Bufs : AddCall(b, TransferAdds)
    \/ \E b \in Bufs : Reset(b)
    \/ AddContentOf("B", "A")
    \/ \E n \in LatestArgs(TransferCap) : AddLatestFrom("B", "A", n)

SpecTransfer == InitTransfer /\ [][NextTransfer]_vars

\* Persistence: the caller fills and resets the source "A" and the
\* destination "B", each of any capacity up to PersistCap; "A" is saved and
\* "B" loads the file.
\* One buffer under inserts, resets and every reading method, and a caller
\* that edits the lists get_latest hands out.
InitRead == \E c \in 1 .. ReadCap : Construct([b \in Bufs |-> c])

NextRead ==
    \/ AddCall("A", ReadAdds)
    \/ Reset("A")
    \/ \E n \in LatestArgs(capacity["A"]) : GetLatestCall("A", n)
    \/ EditReturned("A")
    \/ \E k \in BatchArgs(capacity["A"]) : Sample("A", k)
    \/ \E k \in BatchArgs(capacity["A"]) : \E n \in LatestArgs(capacity["A"]) :
          SampleFromLatest("A", k, n)
    \/ LenCall("A")
    \/ SaveInfo("A")

SpecRead == InitRead /\ [][NextRead]_vars

InitPersist == \E caps \in [Bufs -> 1 .. PersistCap] : Construct(caps)

NextPersist ==
    \/ \E b \in Bufs : AddCall(b, PersistAdds)
    \/ \E b \in Bufs : Reset(b)
    \/ SaveInfo("A")
    \/ LoadInfo("B")

SpecPersist == InitPersist /\ [][NextPersist]_vars

\* ------------------------------------------------------------------ properties
\* The last n elements of s, oldest first.
LastN(s, n) == SubSeq(s, Len(s) - n + 1, Len(s))

\* The storage of b read from the cursor on, around the end, up to the cursor.
WrapOrder(b) ==
    [i \in 1 .. Len(memory[b]) |->
        memory[b][((position[b] + i - 1) % Len(memory[b])) + 1]]

\* C1 (capacity bound): under any sequence of add and reset, the length of the
\* storage, and what len() returns, is min(k, capacity), k the number of
\* inserts since construction or the last reset; so it never exceeds the
\* capacity.
C1_CapacityBound ==
    /\ Len(memory["A"]) = Min(nadds["A"], capacity["A"])
    /\ Len(memory["A"]) <= capacity["A"]
    /\ out.op = "len" => out.val = <<Min(nadds["A"], capacity["A"])>>

\* len() was called after more inserts than the capacity.
C1_Witness ==
    /\ out.op = "len"
    /\ nadds["A"] > capacity["A"]
    /\ capacity["A"] > 1

\* C2 (cursor tracks the insert count): under any sequence of add and reset
\* the cursor is k mod capacity, k the number of inserts since construction or
\* the last reset; so each insert advances it by one modulo the capacity.
C2_CursorTracksInserts ==
    /\ position["A"] = nadds["A"] % capacity["A"]
    /\ out.op = "add" => out.err = "ok"

\* An insert has just wrapped the cursor past the end of a buffer of capacity
\* above 1, and a later insert has moved it off 0.
C2_Witness ==
    /\ out.op = "add"
    /\ nadds["A"] > capacity["A"]
    /\ position["A"] > 0

\* C3 (overwrite correctness): after capacity + k inserts of distinct items
\* (k >= 1) into an empty buffer, the storage holds exactly the last capacity
\* items, none of the first k, and get_latest(capacity) returns those items in
\* the order of their insertion.
C3_OverwriteCorrectness ==
    nadds["A"] > capacity["A"] =>
        /\ Elems(memory["A"]) = Elems(LastN(hist["A"], capacity["A"]))
        /\ Len(memory["A"]) = capacity["A"]
        /\ \A i \in 1 .. (nadds["A"] - capacity["A"]) :
              hist["A"][i] \notin Elems(memory["A"])
        /\ GetLatest(memory["A"], position["A"], capacity["A"], capacity["A"])
              = LastN(hist["A"], capacity["A"])
        /\ (out.op = "get_latest" /\ out.n = capacity["A"]) =>
              out.val = LastN(hist["A"], capacity["A"])

\* get_latest(capacity) was called on a buffer that has wrapped, its cursor
\* inside the storage.
C3_Witness ==
    /\ out.op = "get_latest"
    /\ out.n = capacity["A"]
    /\ nadds["A"] > capacity["A"] + 1
    /\ position["A"] > 0
    /\ Len(out.val) > 1

\* C4 (recency query): in a buffer reached by inserts, for every n from 1 to
\* the length, get_latest(n) returns the n most recently inserted transitions,
\* oldest first.
C4_RecencyQuery ==
    /\ \A n \in 1 .. Len(memory["A"]) :
          GetLatest(memory["A"], position["A"], capacity["A"], n)
             = LastN(hist["A"], n)
    /\ (out.op = "get_latest" /\ out.n >= 1 /\ out.n <= Len(memory["A"])) =>
          out.val = LastN(hist["A"], out.n)

\* The wraparound branch with the cursor inside the storage: get_latest(3) on
\* a full buffer after one insert more than its capacity.
C4_Witness ==
    /\ out.op = "get_latest"
    /\ nadds["A"] = capacity["A"] + 1
    /\ position["A"] = 1
    /\ out.n = 3
    /\ Len(out.val) = 3

\* C5 (deliberate cap): get_latest(n) with n above the capacity raises
\* nothing and returns the whole storage in wrap order, so at most capacity
\* transitions; in a buffer reached by inserts these are all the stored
\* transitions, oldest first.
C5_DeliberateCap ==
    (out.op = "get_latest" /\ out.n > capacity["A"]) =>
        /\ out.err = "ok"
        /\ out.val = WrapOrder("A")
        /\ Len(out.val) <= capacity["A"]
        /\ out.val = LastN(hist["A"], Min(nadds["A"], capacity["A"]))

\* get_latest(capacity + 1) was called on a buffer that has wrapped, its
\* cursor inside the storage.
C5_Witness ==
    /\ out.op = "get_latest"
    /\ out.n > capacity["A"]
    /\ nadds["A"] > capacity["A"]
    /\ position["A"] > 0
    /\ Len(out.val) > 1

\* C6 (round-trip persistence): save_info of a buffer reached by inserts,
\* then load_info into a fresh buffer of equal or greater capacity, raises
\* nothing, reproduces the length, and get_latest(length) of the loaded
\* buffer equals get_latest(length) of the source before the save.
C6_RoundTrip ==
    (/\ out.op = "load_info"
     /\ out.empty
     /\ saved.pure
     /\ capacity[out.buf] >= saved.cap) =>
        /\ out.err = "ok"
        /\ Len(memory[out.buf]) = saved.len
        /\ GetLatest(memory[out.buf], position[out.buf], capacity[out.buf],
                     Len(memory[out.buf])) = saved.latest

\* C7 (transfer preserves recency order): add_latest_from(source, n), n >= 1,
\* on an empty destination of capacity >= n, from a source reached by inserts,
\* raises nothing and leaves get_latest(n) of the destination equal to
\* get_latest(n) of the source at the call, which is the list it pulled.
C7_TransferRecency ==
    (/\ out.op = "add_latest_from"
     /\ out.n >= 1
     /\ out.empty
     /\ capacity[out.buf] >= out.n
     /\ pure[out.src]) =>
        /\ out.err = "ok"
        /\ GetLatest(memory[out.buf], position[out.buf], capacity[out.buf], out.n)
              = GetLatest(memory[out.src], position[out.src], capacity[out.src],
                          out.n)
        /\ GetLatest(memory[out.buf], position[out.buf], capacity[out.buf], out.n)
              = out.val

\* An empty destination has pulled two transitions from a source that has
\* wrapped, its cursor inside the storage.
C7_Witness ==
    /\ out.op = "add_latest_from"
    /\ out.empty
    /\ out.n > 1
    /\ capacity[out.buf] >= out.n
    /\ Len(memory[out.src]) = capacity[out.src]
    /\ position[out.src] > 0
    /\ Len(out.val) > 1

\* C8 (error on oversized sample): sample(batch_size) with batch_size above
\* the length raises ValueError, returns nothing, and leaves storage, cursor
\* and capacity as they were.
C8_OversizedSample ==
    [][(out'.op = "sample" /\ out'.k > Len(memory[out'.buf])) =>
          /\ out'.err = "ValueError"
          /\ out'.val = <<>>
          /\ memory' = memory
          /\ position' = position
          /\ capacity' = capacity]_vars

\* An oversized sample was asked of a buffer that holds transitions.
C8_Witness ==
    /\ out.op = "sample"
    /\ out.k > Len(memory["A"])
    /\ Len(memory["A"]) > 0
    /\ out.err = "ValueError"

\* Row i of a two-dimensional array.
Row(arr, i) == SubSeq(arr.data, (i - 1) * arr.shape[2] + 1, i * arr.shape[2])

\* The five arrays val hold, row by row and field by field, k elements of
\* pool taken from k distinct places.
RowsFrom(val, k, pool) ==
    /\ Len(val) = NumFields
    /\ \A f \in 1 .. NumFields : val[f].shape[1] = k
    /\ \E s \in Picks(Len(pool), k) :
          \A i \in 1 .. k : \A f \in 1 .. NumFields :
             /\ pool[s[i]] # None
             /\ Row(val[f], i) = pool[s[i]][f].data

\* C9 (sample grouping): for 0 <= batch_size <= length, sample(batch_size)
\* returns five arrays (state, action, reward, next_state, done) of
\* batch_size rows each, row i of all five taken from the matching fields of
\* one stored transition, the rows from distinct slots.
C9_SampleGrouping ==
    (out.op = "sample" /\ out.k <= Len(memory[out.buf])) =>
        /\ out.err = "ok"
        /\ RowsFrom(out.val, out.k, memory[out.buf])

\* C10 (sample_from_latest draws from get_latest(n)): the call raises, and
\* then ValueError, exactly when batch_size exceeds the size of the pool
\* get_latest(n); otherwise its rows are taken from distinct elements of that
\* pool, which in a buffer reached by inserts are among the min(n, length)
\* most recent transitions.
C10_SampleFromLatest ==
    out.op = "sample_from_latest" =>
        LET b == out.buf
            pool == GetLatest(memory[b], position[b], capacity[b], out.n)
        IN  /\ (out.err # "ok") <=> (out.k > Len(pool))
            /\ out.err # "ok" => out.err = "ValueError"
            /\ out.err = "ok" =>
                  /\ RowsFrom(out.val, out.k, pool)
                  /\ pure[b] =>
                        RowsFrom(out.val, out.k,
                                 LastN(hist[b], Min(out.n, Len(memory[b]))))

\* A buffer of capacity cap that was constructed and then given the
\* transitions ts by add, one by one: slot j holds the last of them whose
\* place in ts is j modulo the capacity, and the cursor is their number modulo
\* the capacity.
FreshAfter(cap, ts) ==
    [mem |-> [j \in 1 .. Min(Len(ts), cap) |->
                 ts[Len(ts) - ((Len(ts) - j) % cap)]],
     pos |-> Len(ts) % cap]

\* C11 (reset): reset in any reachable state raises nothing, leaves length 0
\* and cursor 0 with the capacity unchanged, and the buffer then is as a
\* freshly constructed buffer of that capacity is under the inserts that
\* follow.
C11_Reset ==
    /\ [](\A b \in Bufs :
            /\ (out.op = "reset" /\ out.buf = b) =>
                  (out.err = "ok" /\ memory[b] = <<>> /\ position[b] = 0)
            /\ pure[b] =>
                  /\ memory[b] = FreshAfter(capacity[b], hist[b]).mem
                  /\ position[b] = FreshAfter(capacity[b], hist[b]).pos)
    /\ [][out'.op = "reset" => capacity' = capacity]_vars

\* reset was called on a buffer that held something or had its cursor off 0,
\* after a file was loaded.
C11_Witness ==
    /\ out.op = "reset"
    /\ out.buf = "B"
    /\ ~out.empty
    /\ file.exists

\* C12 (cursor range): in every state reached by add, reset, save_info and
\* load_info of a saved file, the cursor of each buffer is an integer from 0 to
\* its capacity less one.
C12_CursorRange ==
    \A b \in Bufs : position[b] \in 0 .. (capacity[b] - 1)

\* C13 (insert never fails): in every state reached by add, reset, save_info
\* and load_info of a saved file, add raises nothing.
C13_InsertNeverFails ==
    out.op = "add" => out.err = "ok"

\* C14 (add_content_of): the call pulls get_latest(capacity of this buffer)
\* of the other buffer, which for a source reached by inserts is its
\* min(length, this capacity) most recent transitions; when it pulled m >= 1,
\* it raises nothing and get_latest(m) of this buffer then equals the pulled
\* list, whatever this buffer held before; the other buffer is left as it was.
C14_AddContentOf ==
    /\ [](out.op = "add_content_of" =>
            LET b == out.buf
                o == out.src
                m == Len(out.val)
            IN  /\ out.val = GetLatest(memory[o], position[o], capacity[o],
                                       capacity[b])
                /\ pure[o] =>
                      out.val = LastN(hist[o], Min(Len(memory[o]), capacity[b]))
                /\ m >= 1 =>
                      /\ out.err = "ok"
                      /\ GetLatest(memory[b], position[b], capacity[b], m)
                            = out.val)
    /\ [][out'.op = "add_content_of" =>
            /\ memory'[out'.src] = memory[out'.src]
            /\ position'[out'.src] = position[out'.src]]_vars

\* A destination that held transitions of its own has pulled two transitions
\* from a source that has wrapped, and wrote them across its own wrap.
C14_Witness ==
    /\ out.op = "add_content_of"
    /\ ~out.empty
    /\ Len(out.val) > 1
    /\ position[out.src] > 0
    /\ Len(memory[out.src]) = capacity[out.src]
    /\ position[out.buf] > 0

\* The number of places of s that hold x.
Count(s, x) == Cardinality({ i \in 1 .. Len(s) : s[i] = x })

\* C15 (shuffle): shuffle only permutes the storage: the multiset of stored
\* transitions, the length, the cursor and the capacity after the call are
\* those before it; and under inserts, resets and shuffles in any order the
\* length stays within the capacity, every slot holds a transition and no
\* insert raises.
C15_ShuffleOnlyPermutes ==
    /\ [](/\ Len(memory["A"]) <= capacity["A"]
          /\ \A i \in 1 .. Len(memory["A"]) :
                /\ memory["A"][i] # None
                /\ Len(memory["A"][i]) = NumFields
          /\ out.op = "add" => out.err = "ok")
    /\ [][out'.op = "shuffle" =>
            /\ Len(memory'["A"]) = Len(memory["A"])
            /\ \A x \in Elems(memory["A"]) \cup Elems(memory'["A"]) :
                  Count(memory'["A"], x) = Count(memory["A"], x)
            /\ position' = position
            /\ capacity' = capacity]_vars

\* After a shuffle that exchanged the two slots of a full buffer, an insert
\* has overwritten the slot at the cursor: the newest item stands beside the
\* oldest, which no run without shuffle leaves.
C15_Witness ==
    /\ out.op = "add" /\ out.err = "ok"
    /\ ~pure["A"]
    /\ Len(memory["A"]) = 2
    /\ position["A"] = 1
    /\ memory["A"][1][3].data = <<FieldVal(ItemOf("A", 3), 3)>>
    /\ memory["A"][2][3].data = <<FieldVal(ItemOf("A", 1), 3)>>

\* The methods that only read the buffer, and the caller's edit of a list
\* get_latest returned.
ReadOps == {"get_latest", "sample", "sample_from_latest", "len", "save_info",
            "edit"}

\* C16 (read operations): get_latest, sample, sample_from_latest, len and
\* save_info leave the storage (content and order), the cursor and the
\* capacity as they were; the list get_latest returns is in every branch a
\* list the call built, never the list self.memory, so a caller appending to
\* it, removing from it or replacing an element of it leaves the storage as
\* it was.
C16_ReadOnly ==
    /\ [](out.op = "get_latest" => out.obj = Built)
    /\ [][out'.op \in ReadOps =>
            /\ memory' = memory
            /\ position' = position
            /\ capacity' = capacity]_vars

\* The caller edited a list that get_latest, asked for more than the capacity
\* of a full buffer with the cursor at 0, returned equal to the whole storage;
\* the buffer had been saved before.
C16_Witness ==
    /\ out.op = "edit"
    /\ out.n > capacity["A"]
    /\ Len(memory["A"]) = capacity["A"]
    /\ capacity["A"] > 1
    /\ position["A"] = 0
    /\ Len(out.val) = Len(memory["A"])
    /\ out.val # memory["A"]
    /\ file.exists /\ file.header[1] = capacity["A"]

\* The transitions the records of file f make, in file order.
FileTransitions(f) ==
    [i \in 1 .. f.header[1] |->
        MkTransition(SubSeq(f.records, NumFields * (i - 1) + 1, NumFields * i))]

\* C17 (load over capacity): when a buffer that is empty with cursor 0 loads a
\* file whose saved count exceeds its capacity C, the load raises nothing,
\* the length is C, the storage is what inserting the saved records one by
\* one in file order into an empty buffer of capacity C leaves, and the
\* cursor is the cursor saved in the file header.
C17_LoadOverCapacity ==
    (out.op = "load_info" /\ out.empty
        /\ file.header[1] > capacity[out.buf]) =>
       /\ out.err = "ok"
       /\ Len(memory[out.buf]) = capacity[out.buf]
       /\ memory[out.buf]
             = FreshAfter(capacity[out.buf], FileTransitions(file)).mem
       /\ position[out.buf] = file.header[2]

\* A file of three records, saved with cursor 1 by a buffer that had wrapped,
\* was loaded into an empty buffer of capacity 2.
C17_Witness ==
    /\ out.op = "load_info" /\ out.empty
    /\ capacity[out.buf] = 2
    /\ file.header = <<3, 1>>
    /\ memory[out.buf][1] = FileTransitions(file)[3]

\* C18 (result size of get_latest): in any state reached by inserts and
\* resets, for every n >= 0, n = 0 and n above the length included,
\* get_latest(n) returns exactly min(n, length) transitions.
C18_ResultSize ==
    out.op = "get_latest" => Len(out.val) = Min(out.n, Len(memory[out.buf]))

\* C19 (no empty slots): in every state reached by the public operations,
\* load of a saved file into a buffer of equal, smaller or greater capacity
\* and further inserts included, every slot of the storage holds a
\* transition of five fields, never the placeholder None.
C19_NoEmptySlots ==
    \A b \in Bufs : \A i \in 1 .. Len(memory[b]) :
       /\ memory[b][i] # None
       /\ Len(memory[b][i]) = NumFields

\* C20 (load independent of prior state): load of a well-formed file raises
\* nothing and leaves the storage and cursor that the same load leaves in a
\* freshly constructed buffer of the same capacity, whatever inserts the
\* buffer had received before.
C20_LoadIgnoresPriorState ==
    out.op = "load_info" =>
       LET fresh == Load(0, capacity[out.buf], file)
       IN  /\ out.err = "ok"
           /\ memory[out.buf] = fresh.mem
           /\ position[out.buf] = fresh.pos

====
